---- MODULE Spec2Model ----
(***************************************************************************)
(* A model of src/src/Utility/Collection.js: class Collection extends Map. *)
(* The store is the Map's entry list in insertion order.  JavaScript       *)
(* values are modelled by strings; a key is a small positive integer.      *)
(***************************************************************************)
EXTENDS Integers, Sequences, FiniteSets, TLC

\* ------------------------------------------------------------- bounds
\* Number of distinct keys the callers use.
NumKeys == 2
\* Math.random() is drawn from { n / RandomGrain : n \in 0..RandomGrain-1 }.
RandomGrain == 4

\* ------------------------------------------------------ JavaScript values
Null == "null"
Undefined == "undefined"

\* The classes a Collection may be constructed with: Derived extends Base.
Classes == {"Base", "Derived"}

\* Keys handed to the collection.
Keys == 1..NumKeys

\* Values handed to add/update/set: a Base instance, a Derived instance and
\* the number 0.
Values == {"b1", "d1", "zero"}

\* The third argument of add: true, false, or omitted.
ReplaceArgs == {"true", "false", Undefined}

\* What the constructor may be given.
CtorArgs == Classes \cup {Undefined, Null}

\* JavaScript truthiness of a value (ToBoolean).
Truthy(v) == v \notin {"zero", "false", Null, Undefined}

\* The constructors on the prototype chain of a value; empty for primitives.
ProtoChain(v) ==
  CASE v = "b1" -> {"Base", "Object"}
    [] v = "d1" -> {"Derived", "Base", "Object"}
    [] OTHER -> {}

\* value instanceof cls
InstanceOf(v, cls) == cls \in ProtoChain(v)

\* cls.name
ClassName(cls) ==
  CASE cls = "Base" -> "Base"
    [] cls = "Derived" -> "Derived"

\* --------------------------------------------------- the inherited Map
Entry(k, v) == [key |-> k, value |-> v]

MapSize(s) == Len(s)

MapHas(s, k) == \E i \in 1..Len(s) : s[i].key = k

\* Map.prototype.get: undefined for a key that is not present.
MapGet(s, k) ==
  IF MapHas(s, k)
    THEN s[CHOOSE i \in 1..Len(s) : s[i].key = k].value
    ELSE Undefined

\* A set() that deletes the entry and appends it again.
MapSetMoveToEnd(s, k, v) ==
  Append(SelectSeq(s, LAMBDA e : e.key # k), Entry(k, v))

\* Map.prototype.set: a present key keeps its position, a new key goes last.
MapSet(s, k, v) ==
  IF MapHas(s, k)
    THEN [i \in 1..Len(s) |-> IF s[i].key = k THEN Entry(k, v) ELSE s[i]]
    ELSE Append(s, Entry(k, v))

\* Map.prototype.delete
MapDelete(s, k) == SelectSeq(s, LAMBDA e : e.key # k)

\* Map.prototype.values(), materialised in iteration order.
MapValues(s) == [i \in 1..Len(s) |-> s[i].value]

\* Map.prototype.keys(), materialised in iteration order.
MapKeys(s) == [i \in 1..Len(s) |-> s[i].key]

\* ------------------------------------------------------- call outcomes
\* What a call leaves behind: the store, the returned value, whether it
\* threw, the returned array (toArray) and the index it computed (random).
Outcome(s, r, t, a, i) ==
  [store |-> s, ret |-> r, thrown |-> t, arr |-> a, idx |-> i]

Return(s, r) == Outcome(s, r, FALSE, <<>>, -1)

Throw(s) == Outcome(s, Undefined, TRUE, <<>>, -1)

\* ------------------------------------------------- Collection's methods
\* constructor: this.baseObject = baseObject ? baseObject : null
Constructor(arg) == IF Truthy(arg) THEN arg ELSE Null

\* add() with the outcomes of its two guards joined by "or".
addExistingOrNoReplace(s, base, key, value, replace) ==
  LET existing == MapGet(s, key) IN
  IF Truthy(existing) \/ ~Truthy(replace) THEN Return(s, existing)
  ELSE IF Truthy(base) /\ ~InstanceOf(value, base) THEN Return(s, Null)
  ELSE Return(MapSet(s, key, value), value)

\* add() without the instanceof guard.
addNoTypeCheck(s, base, key, value, replace) ==
  LET existing == MapGet(s, key) IN
  IF Truthy(existing) /\ ~Truthy(replace) THEN Return(s, existing)
  ELSE Return(MapSet(s, key, value), value)

\* add(key, value, replace)
add(s, base, key, value, replace) ==
  LET existing == MapGet(s, key) IN
  IF Truthy(existing) /\ ~Truthy(replace) THEN Return(s, existing)
  ELSE IF Truthy(base) /\ ~InstanceOf(value, base) THEN Return(s, Null)
  ELSE Return(MapSet(s, key, value), value)

\* update() that forgets to ask for replacement.
updateNoReplace(s, base, key, value) == add(s, base, key, value, "false")

\* update(key, value): add(key, value, true)
update(s, base, key, value) == add(s, base, key, value, "true")

\* remove(key)
remove(s, key) ==
  LET item == MapGet(s, key) IN
  IF ~Truthy(item) THEN Return(s, Null)
  ELSE Return(MapDelete(s, key), item)

\* Math.floor(num / den) for num >= 0, den > 0
MathFloor(num, den) == num \div den

\* Math.round(num / den) for num >= 0, den > 0
MathRound(num, den) == (2 * num + den) \div (2 * den)

\* arr[i] of a JavaScript array: undefined outside 0..length-1
ArrayAt(arr, i) == IF i \in 0..(Len(arr) - 1) THEN arr[i + 1] ELSE Undefined

\* random() that rounds the index instead of flooring it.
randomRound(s, n) ==
  IF MapSize(s) = 0 THEN Return(s, Undefined)
  ELSE LET i == MathRound(n * MapSize(s), RandomGrain) IN
       Outcome(s, ArrayAt(MapValues(s), i), FALSE, <<>>, i)

\* random(), with Math.random() = n / RandomGrain
random(s, n) ==
  IF MapSize(s) = 0 THEN Return(s, Undefined)
  ELSE LET i == MathFloor(n * MapSize(s), RandomGrain) IN
       Outcome(s, ArrayAt(MapValues(s), i), FALSE, <<>>, i)

\* this.values, the property read without a call: the method itself.
ThisValues(s) == [kind |-> "function", items |-> <<>>]

\* [...x]: a TypeError unless x is iterable.
Spread(s, x) ==
  IF x.kind = "iterable" THEN Outcome(s, Undefined, FALSE, x.items, -1)
  ELSE Throw(s)

\* toArray(): [...this.values]
toArray(s) == Spread(s, ThisValues(s))

\* toString() that falls back to a placeholder name.
toStringGuarded(s, base) ==
  Return(s, "[Collection<" \o (IF base = Null THEN "any" ELSE ClassName(base)) \o ">]")

\* toString(): reading .name of null throws a TypeError.
toString(s, base) ==
  IF base = Null THEN Throw(s)
  ELSE Return(s, "[Collection<" \o ClassName(base) \o ">]")

\* ----------------------------------------------------------------- state
\* baseObject: this.baseObject.  store: the Map's entries, in order.
\* order: the keys in the order callers saw them freshly inserted.
\* removed: the absent keys whose entry was taken out by remove().
\* last: the most recent call, its arguments, its outcome, the store before.
VARIABLES baseObject, store, order, removed, last

vars == <<baseObject, store, order, removed, last>>

NoCall ==
  [op |-> "new", key |-> 0, value |-> Undefined, replace |-> Undefined,
   ret |-> Undefined, thrown |-> FALSE, arr |-> <<>>, idx |-> -1,
   before |-> <<>>, readd |-> FALSE]

\* new Collection(arg)
Init ==
  /\ \E arg \in CtorArgs : baseObject = Constructor(arg)
  /\ store = <<>>
  /\ order = <<>>
  /\ removed = {}
  /\ last = NoCall

\* The keys a call has freshly inserted.
Fresh(before, after) == {k \in Keys : ~MapHas(before, k) /\ MapHas(after, k)}

\* The keys a call has taken out.
Gone(before, after) == {k \in Keys : MapHas(before, k) /\ ~MapHas(after, k)}

\* A call of method op with the given arguments and outcome.
Call(op, k, v, r, out) ==
  LET fresh == Fresh(store, out.store)
      kept == SelectSeq(order, LAMBDA x : MapHas(out.store, x))
  IN
  /\ store' = out.store
  /\ order' = IF fresh = {} THEN kept ELSE Append(kept, CHOOSE x \in fresh : TRUE)
  /\ removed' = (removed \ fresh)
                  \cup (IF op = "remove" THEN Gone(store, out.store) ELSE {})
  /\ last' = [op |-> op, key |-> k, value |-> v, replace |-> r,
              ret |-> out.ret, thrown |-> out.thrown, arr |-> out.arr,
              idx |-> out.idx, before |-> store,
              readd |-> (fresh \cap removed # {})]
  /\ UNCHANGED baseObject

CallAdd ==
  \E k \in Keys, v \in Values, r \in ReplaceArgs :
    Call("add", k, v, r, add(store, baseObject, k, v, r))

CallUpdate ==
  \E k \in Keys, v \in Values :
    Call("update", k, v, "true", update(store, baseObject, k, v))

CallRemove ==
  \E k \in Keys : Call("remove", k, Undefined, Undefined, remove(store, k))

CallRandom ==
  \E n \in 0..(RandomGrain - 1) :
    Call("random", 0, Undefined, Undefined, random(store, n))

CallToArray == Call("toArray", 0, Undefined, Undefined, toArray(store))

CallToString ==
  Call("toString", 0, Undefined, Undefined, toString(store, baseObject))

\* The mutators Collection inherits from Map and does not override.
CallSet ==
  \E k \in Keys, v \in Values :
    Call("set", k, v, Undefined, Return(MapSet(store, k, v), "this"))

CallDelete ==
  \E k \in Keys :
    Call("delete", k, Undefined, Undefined,
         Return(MapDelete(store, k), IF MapHas(store, k) THEN "true" ELSE "false"))

CallClear == Call("clear", 0, Undefined, Undefined, Return(<<>>, Undefined))

\* Collection's own methods only.
NextOwn ==
  \/ CallAdd
  \/ CallUpdate
  \/ CallRemove
  \/ CallRandom
  \/ CallToArray
  \/ CallToString

SpecOwn == Init /\ [][NextOwn]_vars

\* Every method reachable on a Collection object.
Next ==
  \/ CallAdd
  \/ CallUpdate
  \/ CallRemove
  \/ CallRandom
  \/ CallToArray
  \/ CallToString
  \/ CallSet
  \/ CallDelete
  \/ CallClear

Spec == Init /\ [][Next]_vars

\* ----------------------------------------------------------- properties
\* The value passes the collection's type constraint, or there is none.
PassesType(v) == baseObject = Null \/ InstanceOf(v, baseObject)

\* The last call asked for replacement: update, or add with a truthy replace.
Replacing ==
  \/ last.op = "update"
  \/ last.op = "add" /\ Truthy(last.replace)

\* C1: with a baseObject configured, every stored value is an instance of it,
\* in every state reachable by the mutating operations of the object.
C1_StoredValuesAreInstances ==
  baseObject # Null =>
    \A i \in 1..Len(store) : InstanceOf(store[i].value, baseObject)

\* C2: add(K, V2) with replace false or omitted on a present key K returns the
\* stored value V1, leaves get(K) = V1 and leaves size unchanged.
C2_AddKeepsExisting ==
  (last.op = "add" /\ ~Truthy(last.replace) /\ MapHas(last.before, last.key)) =>
    /\ last.ret = MapGet(last.before, last.key)
    /\ MapGet(store, last.key) = MapGet(last.before, last.key)
    /\ MapSize(store) = MapSize(last.before)

\* C3 as stated: with a baseObject configured and V not an instance of it,
\* add(K, V) returns null and changes nothing, whether K is present or not and
\* for either value of replace.
C3_RejectReturnsNull ==
  (last.op = "add" /\ baseObject # Null /\ ~InstanceOf(last.value, baseObject)) =>
    /\ last.ret = Null
    /\ store = last.before

\* C3 amended: with a baseObject configured and V not an instance of it,
\* add(K, V, replace) and update(K, V) never change the collection; they
\* return null, except that add with replace false or omitted on a key that
\* holds a truthy value returns that stored value.
C3_RejectLeavesStore ==
  (last.op \in {"add", "update"} /\ baseObject # Null
     /\ ~InstanceOf(last.value, baseObject)) =>
    /\ store = last.before
    /\ last.ret = IF Truthy(MapGet(last.before, last.key)) /\ ~Replacing
                    THEN MapGet(last.before, last.key)
                    ELSE Null

\* C3 witness: a non-instance was offered without replace for a present key,
\* and the stored value came back instead of null.
C3_Witness ==
  /\ last.op = "add"
  /\ baseObject # Null
  /\ ~InstanceOf(last.value, baseObject)
  /\ ~Truthy(last.replace)
  /\ MapHas(last.before, last.key)
  /\ last.ret = MapGet(last.before, last.key)
  /\ last.ret # Null

\* C4: remove(K) on an absent key returns null and leaves size unchanged; on a
\* present key, whatever it holds, it returns the stored value, size drops by
\* one and has(K) is false afterwards.
C4_Remove ==
  last.op = "remove" =>
    IF MapHas(last.before, last.key)
      THEN /\ last.ret = MapGet(last.before, last.key)
           /\ MapSize(store) = MapSize(last.before) - 1
           /\ ~MapHas(store, last.key)
      ELSE /\ last.ret = Null
           /\ MapSize(store) = MapSize(last.before)

\* C5 as stated: update(K, V2), or add(K, V2, true), on a present key returns
\* V2, yields get(K) = V2 and leaves size unchanged, for every V2.
C5_UpdateStoresAnyValue ==
  (Replacing /\ MapHas(last.before, last.key)) =>
    /\ last.ret = last.value
    /\ MapGet(store, last.key) = last.value
    /\ MapSize(store) = MapSize(last.before)

\* C5 amended: update(K, V2), or add(K, V2, true), on a present key returns V2,
\* yields get(K) = V2 and leaves size unchanged, for every V2 that passes the
\* type constraint (any V2 when no baseObject is configured).
C5_UpdateStoresValidValue ==
  (Replacing /\ MapHas(last.before, last.key) /\ PassesType(last.value)) =>
    /\ last.ret = last.value
    /\ MapGet(store, last.key) = last.value
    /\ MapSize(store) = MapSize(last.before)

\* C5 witness: update overwrote a present key with a different valid value.
C5_Witness ==
  /\ last.op = "update"
  /\ MapHas(last.before, last.key)
  /\ PassesType(last.value)
  /\ MapGet(last.before, last.key) # last.value
  /\ MapGet(store, last.key) = last.value

\* C6: toArray() returns an array of length size holding the current values in
\* iteration order, and leaves the collection unchanged.
C6_ToArray ==
  last.op = "toArray" =>
    /\ ~last.thrown
    /\ Len(last.arr) = MapSize(store)
    /\ last.arr = MapValues(store)
    /\ store = last.before

\* C7: add(K, V) for an absent key K and a value V that passes the type
\* constraint returns V; afterwards get(K) = V, size is one larger and every
\* other key holds what it held.
C7_AddInsertsNewKey ==
  (last.op = "add" /\ ~MapHas(last.before, last.key) /\ PassesType(last.value)) =>
    /\ last.ret = last.value
    /\ MapHas(store, last.key)
    /\ MapGet(store, last.key) = last.value
    /\ MapSize(store) = MapSize(last.before) + 1
    /\ \A k \in Keys \ {last.key} :
         /\ MapHas(store, k) = MapHas(last.before, k)
         /\ MapGet(store, k) = MapGet(last.before, k)

\* C7 witness: a new key was added to a collection that already had entries.
C7_Witness ==
  /\ last.op = "add"
  /\ ~MapHas(last.before, last.key)
  /\ PassesType(last.value)
  /\ MapSize(last.before) >= 1
  /\ MapSize(store) = MapSize(last.before) + 1

\* C8: the iteration order is the order in which the present keys were most
\* recently freshly inserted; overwriting a present key through update or
\* add with replace keeps every position; a key that was removed and is added
\* again comes last.
C8_IterationOrder ==
  /\ MapKeys(store) = order
  /\ (Replacing /\ MapHas(last.before, last.key)) =>
       MapKeys(store) = MapKeys(last.before)
  /\ last.readd =>
       /\ MapSize(store) >= 1
       /\ store[MapSize(store)].key = last.key

\* C8 witness: a key taken out by remove() was added again behind another key.
C8_Witness ==
  /\ last.op = "add"
  /\ last.readd
  /\ MapSize(store) >= 2
  /\ store[MapSize(store)].key = last.key

\* C9: toString() throws exactly when no baseObject was configured; otherwise
\* it returns "[Collection<NAME>]" whatever the store holds; the store is left
\* unchanged either way.
C9_ToString ==
  last.op = "toString" =>
    /\ last.thrown <=> baseObject = Null
    /\ baseObject = "Base" => last.ret = "[Collection<Base>]"
    /\ baseObject = "Derived" => last.ret = "[Collection<Derived>]"
    /\ store = last.before

\* C9 witness: toString() threw on a non-empty collection without baseObject.
C9_Witness ==
  /\ last.op = "toString"
  /\ last.thrown
  /\ baseObject = Null
  /\ MapSize(store) >= 1

\* C10: random() returns undefined on an empty collection; otherwise its index
\* lies in [0, size) and it returns a stored value; it never changes the store.
C10_Random ==
  last.op = "random" =>
    /\ store = last.before
    /\ ~last.thrown
    /\ MapSize(store) = 0 => last.ret = Undefined
    /\ MapSize(store) > 0 =>
         /\ last.idx \in 0..(MapSize(store) - 1)
         /\ \E i \in 1..Len(store) : store[i].value = last.ret

\* C10 witness: random() picked the last of several entries.
C10_Witness ==
  /\ last.op = "random"
  /\ MapSize(store) >= 2
  /\ last.idx = MapSize(store) - 1
  /\ last.ret = store[MapSize(store)].value
====
